---------------------------- MODULE Spec2Model ----------------------------
(***************************************************************************)
(* Model of pywikitools.resourcesbot.data_structures: FileInfo,            *)
(* WorksheetInfo, LanguageInfo (with compare), json_decode and             *)
(* WorksheetInfoEncoder.                                                   *)
(*                                                                         *)
(* Python values are modelled as records.  Objects of a class carry their  *)
(* class in the field t; a raw JSON mapping is a function from its keys    *)
(* (none of which is "t") to its values; a Python list is a sequence; a    *)
(* Python dict that the code iterates is an insertion-ordered sequence of  *)
(* [k, v] entries; a raised exception is [t |-> "raise", exc |-> name].    *)
(* Timestamp strings and urls are sequences of tokens so that replace,     *)
(* fromisoformat, isoformat and unquote do real work.                      *)
(***************************************************************************)
EXTENDS Integers, Sequences, FiniteSets, TLC

VARIABLES objs, self, older, input, ret, calls

vars == <<objs, self, older, input, ret, calls>>

(***************************************************************************)
(* Bounds of the model                                                     *)
(***************************************************************************)
\* the number of constructor, add_file_info and add_worksheet_info calls of a run
MaxCompareCalls == 6

MaxCodecCalls == 5

MaxFileCalls == 4

(***************************************************************************)
(* Python basics                                                           *)
(***************************************************************************)
None == [t |-> "None"]

Raise(exc) == [t |-> "raise", exc |-> exc]

KindOf(v) == IF "t" \in DOMAIN v THEN v.t ELSE "dict"

IsRaise(v) == KindOf(v) = "raise"

Str(tokens) == [t |-> "str", s |-> tokens]

Bytes(tokens) == [t |-> "bytes", s |-> tokens]

\* dict as an insertion-ordered sequence of entries [k |-> key, v |-> value]
DictValues(d) == [i \in 1..Len(d) |-> d[i].v]

DictHas(d, key) == \E i \in 1..Len(d) : d[i].k = key

DictGet(d, key) == d[CHOOSE i \in 1..Len(d) : d[i].k = key].v

\* d[key] = value: an existing key keeps its position, a new key goes last
DictPut(d, key, value) ==
    IF DictHas(d, key)
    THEN [i \in 1..Len(d) |-> IF d[i].k = key THEN [k |-> key, v |-> value] ELSE d[i]]
    ELSE Append(d, [k |-> key, v |-> value])

(***************************************************************************)
(* datetime                                                                *)
(***************************************************************************)
\* date-and-time bodies and utc offsets that occur in the model's strings
Bodies == {"1970-01-01T00:00:00", "2021-05-03T12:30:00"}

Offsets == {"+00:00", "+02:00"}

datetime(body, tz) == [t |-> "datetime", body |-> body, tz |-> tz]

\* datetime(1970, 1, 1)
Epoch == datetime("1970-01-01T00:00:00", "naive")

\* str.replace(old, new) on a token sequence: every occurrence is replaced
replace(s, old, new) == [i \in 1..Len(s) |-> IF s[i] = old THEN new ELSE s[i]]

\* datetime.fromisoformat: body alone is a naive time, body and offset an aware one
fromisoformat(s) ==
    IF Len(s) = 1 /\ s[1] \in Bodies THEN datetime(s[1], "naive")
    ELSE IF Len(s) = 2 /\ s[1] \in Bodies /\ s[2] \in Offsets THEN datetime(s[1], s[2])
    ELSE Raise("ValueError")

\* datetime.isoformat
isoformat(d) == IF d.tz = "naive" THEN <<d.body>> ELSE <<d.body, d.tz>>

\* urllib.parse.unquote: every percent escape is replaced by its character
unquote(url) == [i \in 1..Len(url) |-> IF url[i] = "%20" THEN " " ELSE url[i]]

(***************************************************************************)
(* FileInfo                                                                *)
(***************************************************************************)
\* the object FileInfo.__init__ leaves behind
MkFileInfo(file_type, url, timestamp) ==
    [t |-> "FileInfo", file_type |-> file_type, url |-> url, timestamp |-> timestamp]

\* timestamp.replace('Z', '+00:00'): AttributeError on a value without replace,
\* TypeError on bytes (its replace takes no str)
timestamp_replace(timestamp) ==
    IF timestamp.t = "str" THEN Str(replace(timestamp.s, "Z", "+00:00"))
    ELSE IF timestamp.t = "bytes" THEN Raise("TypeError")
    ELSE Raise("AttributeError")

\* FileInfo.__init__: the new object, or the exception that escapes
FileInfo(file_type, url, timestamp) ==
    IF timestamp.t = "datetime" THEN MkFileInfo(file_type, url, timestamp)
    ELSE LET replaced == timestamp_replace(timestamp)
             parsed == IF IsRaise(replaced) THEN replaced ELSE fromisoformat(replaced.s)
         IN  IF IsRaise(parsed)
             THEN IF parsed.exc \in {"ValueError", "TypeError"}
                  THEN MkFileInfo(file_type, url, Epoch)
                  ELSE parsed
             ELSE MkFileInfo(file_type, url, parsed)

(***************************************************************************)
(* TranslationProgress and ChangeLog (fortraininglib, resourcesbot.changes)*)
(***************************************************************************)
\* TranslationProgress(**data): the three counts are required arguments,
\* further keys are accepted and dropped
TranslationProgress(data) ==
    IF {"translated", "fuzzy", "total"} \subseteq DOMAIN data
    THEN [t |-> "TranslationProgress", translated |-> data["translated"],
          fuzzy |-> data["fuzzy"], total |-> data["total"]]
    ELSE Raise("TypeError")

ChangeTypes ==
    {"NEW_WORKSHEET", "DELETED_WORKSHEET", "UPDATED_WORKSHEET",
     "NEW_PDF", "DELETED_PDF", "UPDATED_PDF",
     "NEW_ODT", "DELETED_ODT", "UPDATED_ODT"}

\* ChangeLog(): no items
ChangeLog == <<>>

\* ChangeLog.add_change: one more item at the end
add_change(change_log, worksheet, change_type) ==
    Append(change_log, [worksheet |-> worksheet, change_type |-> change_type])

(***************************************************************************)
(* WorksheetInfo                                                           *)
(***************************************************************************)
\* WorksheetInfo.__init__
WorksheetInfo(page, language_code, title, progress) ==
    [t |-> "WorksheetInfo", page |-> page, language_code |-> language_code,
     title |-> title, progress |-> progress, files |-> <<>>]

\* a reference to the WorksheetInfo object number id of the heap objs
Ref(id) == [t |-> "ref", id |-> id]

Deref(v) == IF v.t = "ref" THEN objs[v.id] ELSE v

\* the mutant of add_file_info: the file is added, an earlier one of its type stays
add_file_info_duplicating(w, file_info, file_type, from_pywikibot) ==
    IF file_info # None
    THEN [w EXCEPT !.files = Append(@, [k |-> file_info.file_type, v |-> file_info])]
    ELSE IF ~(file_type # None /\ from_pywikibot # None) THEN Raise("AssertionError")
    ELSE LET new == FileInfo(file_type.s, unquote(from_pywikibot.url),
                             from_pywikibot.timestamp)
         IN  IF IsRaise(new) THEN new
             ELSE [w EXCEPT !.files = Append(@, [k |-> file_type.s, v |-> new])]

\* WorksheetInfo.add_file_info: the worksheet afterwards, or the exception
add_file_info(w, file_info, file_type, from_pywikibot) ==
    IF file_info # None
    THEN [w EXCEPT !.files = DictPut(@, file_info.file_type, file_info)]
    ELSE IF ~(file_type # None /\ from_pywikibot # None) THEN Raise("AssertionError")
    ELSE LET new == FileInfo(file_type.s, unquote(from_pywikibot.url),
                             from_pywikibot.timestamp)
         IN  IF IsRaise(new) THEN new
             ELSE [w EXCEPT !.files = DictPut(@, file_type.s, new)]

get_file_infos(w) == w.files

has_file_type(w, file_type) == DictHas(w.files, file_type)

(***************************************************************************)
(* LanguageInfo                                                            *)
(***************************************************************************)
\* LanguageInfo.__init__
LanguageInfo(language_code) ==
    [t |-> "LanguageInfo", language_code |-> language_code, worksheets |-> <<>>]

add_worksheet_info(li, name, worksheet_info) ==
    [li EXCEPT !.worksheets = DictPut(@, name, worksheet_info)]

\* lines 125-132 of compare: the pdf events of a worksheet on both sides
compare_pdf(change_log, title, info, old_info) ==
    IF has_file_type(info, "pdf")
    THEN IF ~has_file_type(old_info, "pdf")
         THEN add_change(change_log, title, "NEW_PDF")
         ELSE change_log
    ELSE IF has_file_type(old_info, "pdf")
         THEN add_change(change_log, title, "DELETED_PDF")
         ELSE change_log

\* the mutant of compare_odt: a file that is gone is not reported
compare_odt_no_deleted(change_log, title, info, old_info) ==
    IF has_file_type(info, "odt") /\ ~has_file_type(old_info, "odt")
    THEN add_change(change_log, title, "NEW_ODT")
    ELSE change_log

\* lines 134-141 of compare: the odt events of a worksheet on both sides
compare_odt(change_log, title, info, old_info) ==
    IF has_file_type(info, "odt")
    THEN IF ~has_file_type(old_info, "odt")
         THEN add_change(change_log, title, "NEW_ODT")
         ELSE change_log
    ELSE IF has_file_type(old_info, "odt")
         THEN add_change(change_log, title, "DELETED_ODT")
         ELSE change_log

\* one pass of the loop over self.worksheets.items()
compare_worksheet(change_log, title, info, old) ==
    IF DictHas(old.worksheets, title)
    THEN LET old_info == Deref(DictGet(old.worksheets, title))
         IN  compare_odt(compare_pdf(change_log, title, info, old_info),
                         title, info, old_info)
    ELSE add_change(change_log, title, "NEW_WORKSHEET")

RECURSIVE compare_self_loop(_, _, _, _)
\* for title, info in self.worksheets.items(), from entry i on
compare_self_loop(change_log, this, old, i) ==
    IF i > Len(this.worksheets) THEN change_log
    ELSE compare_self_loop(
             compare_worksheet(change_log, this.worksheets[i].k,
                               Deref(this.worksheets[i].v), old),
             this, old, i + 1)

RECURSIVE compare_old_loop_unchecked(_, _, _, _)
\* the mutant of compare_old_loop: every worksheet of old is reported deleted
compare_old_loop_unchecked(change_log, this, old, i) ==
    IF i > Len(old.worksheets) THEN change_log
    ELSE compare_old_loop_unchecked(
             add_change(change_log, old.worksheets[i].k, "DELETED_WORKSHEET"),
             this, old, i + 1)

RECURSIVE compare_old_loop(_, _, _, _)
\* for worksheet in old.worksheets, from entry i on
compare_old_loop(change_log, this, old, i) ==
    IF i > Len(old.worksheets) THEN change_log
    ELSE compare_old_loop(
             IF ~DictHas(this.worksheets, old.worksheets[i].k)
             THEN add_change(change_log, old.worksheets[i].k, "DELETED_WORKSHEET")
             ELSE change_log,
             this, old, i + 1)

\* a mutant of compare: the deleted worksheets are reported first
compare_deleted_first(this, old) ==
    IF KindOf(old) # "LanguageInfo" THEN ChangeLog
    ELSE compare_self_loop(compare_old_loop(ChangeLog, this, old, 1), this, old, 1)

\* a mutant of compare: no isinstance check, old.worksheets fails on other values
compare_unchecked(this, old) ==
    IF KindOf(old) # "LanguageInfo" THEN Raise("AttributeError")
    ELSE compare_old_loop(compare_self_loop(ChangeLog, this, old, 1), this, old, 1)

\* LanguageInfo.compare
compare(this, old) ==
    IF KindOf(old) # "LanguageInfo" THEN ChangeLog
    ELSE compare_old_loop(compare_self_loop(ChangeLog, this, old, 1), this, old, 1)

RECURSIVE missing_pdf_loop(_, _)
\* the list comprehension of list_worksheets_with_missing_pdf, from entry i on
missing_pdf_loop(this, i) ==
    IF i > Len(this.worksheets) THEN <<>>
    ELSE (IF ~has_file_type(Deref(this.worksheets[i].v), "pdf")
          THEN <<this.worksheets[i].k>> ELSE <<>>) \o missing_pdf_loop(this, i + 1)

list_worksheets_with_missing_pdf(this) == missing_pdf_loop(this, 1)

RECURSIVE count_loop(_, _, _)
\* the loop of count_finished_translations, from entry i on
count_loop(this, i, count) ==
    IF i > Len(this.worksheets) THEN count
    ELSE count_loop(this, i + 1,
                    IF has_file_type(Deref(this.worksheets[i].v), "pdf")
                    THEN count + 1 ELSE count)

\* the mutant of count_finished_translations: a worksheet with any file counts
count_any_file(this) ==
    Cardinality({i \in 1..Len(this.worksheets) :
                    get_file_infos(Deref(this.worksheets[i].v)) # <<>>})

count_finished_translations(this) == count_loop(this, 1, 0)

(***************************************************************************)
(* json_decode                                                             *)
(***************************************************************************)
RECURSIVE decode_files_loop_unchecked(_, _, _)
\* the mutant of decode_files_loop: the entries are added without the isinstance check
decode_files_loop_unchecked(worksheet_info, files, i) ==
    IF i > Len(files) THEN worksheet_info
    ELSE decode_files_loop_unchecked(add_file_info(worksheet_info, files[i], None, None),
                                     files, i + 1)

RECURSIVE decode_files_loop(_, _, _)
\* for file_info in data["files"], from entry i on
decode_files_loop(worksheet_info, files, i) ==
    IF i > Len(files) THEN worksheet_info
    ELSE IF KindOf(files[i]) # "FileInfo" THEN Raise("AssertionError")
    ELSE decode_files_loop(add_file_info(worksheet_info, files[i], None, None),
                           files, i + 1)

RECURSIVE decode_worksheets_loop(_, _, _)
\* for worksheet in data["worksheets"], from entry i on
decode_worksheets_loop(language_info, worksheets, i) ==
    IF i > Len(worksheets) THEN language_info
    ELSE IF KindOf(worksheets[i]) # "WorksheetInfo" THEN Raise("AssertionError")
    ELSE decode_worksheets_loop(
             add_worksheet_info(language_info, worksheets[i].page, worksheets[i]),
             worksheets, i + 1)

\* lines 176-184: the "page" branch
decode_worksheet(data) ==
    IF ~({"language_code", "title", "progress"} \subseteq DOMAIN data)
    THEN Raise("AssertionError")
    ELSE IF KindOf(data["progress"]) # "TranslationProgress" THEN Raise("AssertionError")
    ELSE LET worksheet_info == WorksheetInfo(data["page"], data["language_code"],
                                             data["title"], data["progress"])
         IN  IF "files" \in DOMAIN data
             THEN decode_files_loop(worksheet_info, data["files"], 1)
             ELSE worksheet_info

\* lines 185-191: the "worksheets" branch
decode_language(data) ==
    IF "language_code" \notin DOMAIN data THEN Raise("AssertionError")
    ELSE decode_worksheets_loop(LanguageInfo(data["language_code"]),
                                data["worksheets"], 1)

\* the mutant of json_decode: the "page" branch is tried first
json_decode_page_first(data) ==
    IF "page" \in DOMAIN data THEN decode_worksheet(data)
    ELSE IF "file_type" \in DOMAIN data
    THEN IF ~("url" \in DOMAIN data /\ "timestamp" \in DOMAIN data)
         THEN Raise("AssertionError")
         ELSE FileInfo(data["file_type"], data["url"], data["timestamp"])
    ELSE IF "translated" \in DOMAIN data THEN TranslationProgress(data)
    ELSE IF "worksheets" \in DOMAIN data THEN decode_language(data)
    ELSE data

\* json_decode: the object built, the mapping itself, or the exception
json_decode(data) ==
    IF "file_type" \in DOMAIN data
    THEN IF ~("url" \in DOMAIN data /\ "timestamp" \in DOMAIN data)
         THEN Raise("AssertionError")
         ELSE FileInfo(data["file_type"], data["url"], data["timestamp"])
    ELSE IF "translated" \in DOMAIN data THEN TranslationProgress(data)
    ELSE IF "page" \in DOMAIN data THEN decode_worksheet(data)
    ELSE IF "worksheets" \in DOMAIN data THEN decode_language(data)
    ELSE data

(***************************************************************************)
(* WorksheetInfoEncoder                                                    *)
(***************************************************************************)
\* WorksheetInfoEncoder.default: one level, the nested objects still objects
default(obj) ==
    CASE KindOf(obj) = "LanguageInfo" ->
             [language_code |-> obj.language_code,
              worksheets |-> [i \in 1..Len(obj.worksheets) |->
                                 Deref(DictValues(obj.worksheets)[i])]]
      [] KindOf(obj) = "WorksheetInfo" ->
             LET worksheet_json == [page |-> obj.page, language_code |-> obj.language_code,
                                    title |-> obj.title, progress |-> obj.progress]
                 file_infos == get_file_infos(obj)
             IN  IF file_infos # <<>>
                 THEN [k \in DOMAIN worksheet_json \cup {"files"} |->
                          IF k = "files" THEN DictValues(file_infos) ELSE worksheet_json[k]]
                 ELSE worksheet_json
      [] KindOf(obj) = "FileInfo" ->
             [file_type |-> obj.file_type, url |-> obj.url,
              timestamp |-> Str(isoformat(obj.timestamp))]
      [] KindOf(obj) = "TranslationProgress" ->
             [translated |-> obj.translated, fuzzy |-> obj.fuzzy, total |-> obj.total]
      [] OTHER -> Raise("TypeError")

\* json.dumps(worksheet, cls=WorksheetInfoEncoder) as a tree: default, then
\* default again on the objects it left in the mapping
dumps_worksheet(w) ==
    LET m == default(w)
    IN  [k \in DOMAIN m |->
            IF k = "progress" THEN default(m[k])
            ELSE IF k = "files" THEN [i \in 1..Len(m[k]) |-> default(m[k][i])]
            ELSE m[k]]

\* json.dumps(language_info, cls=WorksheetInfoEncoder) as a tree
dumps(li) ==
    LET m == default(li)
    IN  [m EXCEPT !.worksheets = [i \in 1..Len(@) |-> dumps_worksheet(@[i])]]

\* the first exception of a list of results, None when there is none
FirstRaise(list) ==
    IF \E i \in 1..Len(list) : IsRaise(list[i])
    THEN list[CHOOSE i \in 1..Len(list) :
                  IsRaise(list[i]) /\ \A j \in 1..(i - 1) : ~IsRaise(list[j])]
    ELSE None

\* json.loads(text, object_hook=json_decode) on a worksheet's tree: the nested
\* mappings go through json_decode first, then the mapping that holds them
loads_worksheet(m) ==
    LET progress == json_decode(m["progress"])
        files == IF "files" \in DOMAIN m
                 THEN [i \in 1..Len(m["files"]) |-> json_decode(m["files"][i])]
                 ELSE <<>>
    IN  IF IsRaise(progress) THEN progress
        ELSE IF FirstRaise(files) # None THEN FirstRaise(files)
        ELSE json_decode([k \in DOMAIN m |->
                             IF k = "progress" THEN progress
                             ELSE IF k = "files" THEN files
                             ELSE m[k]])

\* json.loads(text, object_hook=json_decode) on a language's tree
loads(m) ==
    LET worksheets == [i \in 1..Len(m["worksheets"]) |-> loads_worksheet(m["worksheets"][i])]
    IN  IF FirstRaise(worksheets) # None THEN FirstRaise(worksheets)
        ELSE json_decode([m EXCEPT !["worksheets"] = worksheets])

(***************************************************************************)
(* The values the calls are made with                                      *)
(***************************************************************************)
Names == {"A", "B", "C"}

FileTypes == {"pdf", "odt"}

Progress1 == [t |-> "TranslationProgress", translated |-> 5, fuzzy |-> 0, total |-> 5]

Progress2 == [t |-> "TranslationProgress", translated |-> 3, fuzzy |-> 1, total |-> 5]

UrlPlain == <<"https://www.4training.net/", "Prayer.pdf">>

UrlQuoted == <<"https://www.4training.net/", "God's", "%20", "Story.pdf">>

NaiveTime == datetime("2021-05-03T12:30:00", "naive")

AwareTime == datetime("2021-05-03T12:30:00", "+00:00")

\* strings that parse, with and without the Z the constructor rewrites
GoodStrings ==
    {Str(<<"2021-05-03T12:30:00">>), Str(<<"2021-05-03T12:30:00", "Z">>),
     Str(<<"2021-05-03T12:30:00", "+02:00">>)}

\* strings that do not parse
BadStrings ==
    {Str(<<"not-a-date">>), Str(<<>>), Str(<<"2021-05-03T12:30:00", "Z", "Z">>),
     Str(<<"Z">>)}

\* values that are neither a datetime nor a str
NonStrings == {None, [t |-> "int", v |-> 0], Bytes(<<"2021-05-03T12:30:00">>)}

TimestampInputs == {NaiveTime, AwareTime} \cup GoodStrings \cup BadStrings \cup NonStrings

\* the FileInfo objects a caller can hold: those whose construction returned
FileInfoObjects(file_types, urls, timestamps) ==
    {f \in {FileInfo(ft, u, ts) : ft \in file_types, u \in urls, ts \in timestamps} :
        ~IsRaise(f)}

\* pywikibot.page.FileInfo: a url and the upload's timestamp, which pywikibot
\* hands out as a datetime
PywikibotFileInfos(urls, timestamps) ==
    {[t |-> "pywikibot.FileInfo", url |-> u, timestamp |-> ts] :
        u \in urls, ts \in timestamps}

\* what compare can be handed that is no LanguageInfo
NonLanguageInfos ==
    {None, [language_code |-> "de", worksheets |-> <<>>],
     WorksheetInfo("A", "de", "Gebet", Progress1)}

(***************************************************************************)
(* The calls                                                               *)
(***************************************************************************)
Init ==
    /\ objs = <<>>
    /\ self = LanguageInfo("de")
    /\ older = LanguageInfo("de")
    /\ input = None
    /\ ret = [op |-> "init"]
    /\ calls = 0

\* WorksheetInfo(page, "de", title, progress), kept as the next object of the heap
NewWorksheetInfo(max, pages, progresses) ==
    /\ calls < max
    /\ \E page \in pages, progress \in progresses :
          objs' = Append(objs, WorksheetInfo(page, "de", "Titel", progress))
    /\ ret' = [op |-> "WorksheetInfo"]
    /\ calls' = calls + 1
    /\ UNCHANGED <<self, older, input>>

\* objs[id].add_file_info(file_info, file_type, from_pywikibot)
AddFileInfo(max, file_infos, file_types, pywikibots) ==
    /\ calls < max
    /\ \E id \in 1..Len(objs), file_info \in file_infos,
          file_type \in file_types, from_pywikibot \in pywikibots :
          LET after == add_file_info(objs[id], file_info, file_type, from_pywikibot)
          IN  /\ objs' = IF IsRaise(after) THEN objs ELSE [objs EXCEPT ![id] = after]
              /\ ret' = [op |-> "add_file_info", id |-> id, file_info |-> file_info,
                         file_type |-> file_type, from_pywikibot |-> from_pywikibot,
                         before |-> get_file_infos(objs[id]),
                         val |-> IF IsRaise(after) THEN after ELSE None]
    /\ calls' = calls + 1
    /\ UNCHANGED <<self, older, input>>

\* self.add_worksheet_info(name, objs[id])
AddWorksheetInfoSelf(max) ==
    /\ calls < max
    /\ \E name \in Names, id \in 1..Len(objs) :
          self' = add_worksheet_info(self, name, Ref(id))
    /\ ret' = [op |-> "add_worksheet_info"]
    /\ calls' = calls + 1
    /\ UNCHANGED <<objs, older, input>>

\* older.add_worksheet_info(name, objs[id])
AddWorksheetInfoOlder(max) ==
    /\ calls < max
    /\ \E name \in Names, id \in 1..Len(objs) :
          older' = add_worksheet_info(older, name, Ref(id))
    /\ ret' = [op |-> "add_worksheet_info"]
    /\ calls' = calls + 1
    /\ UNCHANGED <<objs, self, input>>

\* self.compare(old)
Compare ==
    /\ \E old \in {older} \cup NonLanguageInfos :
          ret' = [op |-> "compare", old |-> old, val |-> compare(self, old)]
    /\ UNCHANGED <<objs, self, older, input, calls>>

\* self.list_worksheets_with_missing_pdf()
ListMissingPdf ==
    /\ ret' = [op |-> "list_worksheets_with_missing_pdf",
               val |-> list_worksheets_with_missing_pdf(self)]
    /\ UNCHANGED <<objs, self, older, input, calls>>

\* self.count_finished_translations()
CountFinished ==
    /\ ret' = [op |-> "count_finished_translations",
               val |-> count_finished_translations(self)]
    /\ UNCHANGED <<objs, self, older, input, calls>>

\* json.loads(json.dumps(self, cls=WorksheetInfoEncoder), object_hook=json_decode)
RoundTrip ==
    /\ ret' = [op |-> "roundtrip", encoded |-> dumps(self), val |-> loads(dumps(self))]
    /\ UNCHANGED <<objs, self, older, input, calls>>

(***************************************************************************)
(* Two languages built call by call and compared                           *)
(***************************************************************************)
NextCompare ==
    \/ NewWorksheetInfo(MaxCompareCalls, {"A"}, {Progress1})
    \/ AddFileInfo(MaxCompareCalls,
                   FileInfoObjects(FileTypes, {UrlPlain}, {NaiveTime}), {None}, {None})
    \/ AddWorksheetInfoSelf(MaxCompareCalls)
    \/ AddWorksheetInfoOlder(MaxCompareCalls)
    \/ Compare

SpecCompare == Init /\ [][NextCompare]_vars

(***************************************************************************)
(* One language built call by call and queried                             *)
(***************************************************************************)
NextCount ==
    \/ NewWorksheetInfo(MaxCompareCalls, {"A"}, {Progress1})
    \/ AddFileInfo(MaxCompareCalls,
                   FileInfoObjects(FileTypes, {UrlPlain}, {NaiveTime}), {None}, {None})
    \/ AddWorksheetInfoSelf(MaxCompareCalls)
    \/ ListMissingPdf
    \/ CountFinished

SpecCount == Init /\ [][NextCount]_vars

(***************************************************************************)
(* One language built call by call, written out and read back              *)
(***************************************************************************)
NextCodec ==
    \/ NewWorksheetInfo(MaxCodecCalls, Names, {Progress2})
    \/ AddFileInfo(MaxCodecCalls,
                   FileInfoObjects(FileTypes, {UrlPlain}, {NaiveTime, AwareTime}),
                   {None}, {None})
    \/ AddWorksheetInfoSelf(MaxCodecCalls)
    \/ RoundTrip

SpecCodec == Init /\ [][NextCodec]_vars

(***************************************************************************)
(* Worksheets and their files, add_file_info called in every way           *)
(***************************************************************************)
NextFiles ==
    \/ NewWorksheetInfo(MaxFileCalls, {"A"}, {Progress1})
    \/ AddFileInfo(MaxFileCalls,
                   FileInfoObjects(FileTypes, {UrlPlain, UrlQuoted},
                                   {NaiveTime, Str(<<"not-a-date">>)}) \cup {None},
                   {Str(ft) : ft \in FileTypes} \cup {None},
                   PywikibotFileInfos({UrlPlain, UrlQuoted}, {AwareTime}) \cup {None})

SpecFiles == Init /\ [][NextFiles]_vars

(***************************************************************************)
(* FileInfo constructed from every kind of timestamp                       *)
(***************************************************************************)
FileInfoInputs ==
    [file_type : FileTypes \cup {"doc"}, url : {UrlPlain, UrlQuoted},
     timestamp : TimestampInputs]

InitFileInfo ==
    /\ objs = <<>>
    /\ self = LanguageInfo("de")
    /\ older = LanguageInfo("de")
    /\ input \in FileInfoInputs
    /\ ret = [op |-> "init"]
    /\ calls = 0

\* FileInfo(input.file_type, input.url, input.timestamp)
ConstructFileInfo ==
    /\ ret.op = "init"
    /\ ret' = [op |-> "FileInfo",
               val |-> FileInfo(input.file_type, input.url, input.timestamp)]
    /\ UNCHANGED <<objs, self, older, input, calls>>

NextFileInfo == ConstructFileInfo

SpecFileInfo == InitFileInfo /\ [][NextFileInfo]_vars

(***************************************************************************)
(* json_decode on one mapping whose nested values are already decoded      *)
(***************************************************************************)
DecodedPdf == MkFileInfo("pdf", UrlPlain, NaiveTime)

DecodedOdt == MkFileInfo("odt", UrlPlain, AwareTime)

RawFile == [file_type |-> "odt", url |-> UrlPlain,
            timestamp |-> Str(<<"2021-05-03T12:30:00">>)]

DecodedA == WorksheetInfo("A", "de", "Gebet", Progress1)

DecodedB == [WorksheetInfo("B", "de", "Titel", Progress2)
                EXCEPT !.files = <<[k |-> "pdf", v |-> DecodedPdf]>>]

RawWorksheet == [page |-> "B", language_code |-> "de", title |-> "Titel",
                 progress |-> Progress2]

\* the value number i a key of the mapping can have
DecodeValue(key, i) ==
    CASE key = "file_type" -> "pdf"
      [] key = "url" -> UrlPlain
      [] key = "timestamp" ->
             IF i = 1 THEN Str(<<"2021-05-03T12:30:00", "Z">>) ELSE None
      [] key = "translated" -> 3
      [] key = "fuzzy" -> 1
      [] key = "total" -> 5
      [] key = "page" -> "A"
      [] key = "language_code" -> "de"
      [] key = "title" -> "Gebet"
      [] key = "progress" ->
             IF i = 1 THEN Progress2 ELSE [translated |-> 3, fuzzy |-> 1, total |-> 5]
      [] key = "files" ->
             IF i = 1 THEN <<DecodedPdf, DecodedOdt>> ELSE <<DecodedPdf, RawFile>>
      [] key = "worksheets" ->
             IF i = 1 THEN <<DecodedA, DecodedB>> ELSE <<DecodedA, RawWorksheet>>

\* for every key: 0 when the mapping lacks it, else the number of its value
DecodeChoices ==
    [file_type : 0..1, url : 0..1, timestamp : 0..2, translated : 0..1,
     fuzzy : 0..1, total : 0..1, page : 0..1, language_code : 0..1, title : 0..1,
     progress : 0..2, files : 0..2, worksheets : 0..2]

\* every mapping over a subset of the keys
DecodeInputs ==
    {[key \in {k \in DOMAIN c : c[k] > 0} |-> DecodeValue(key, c[key])] :
        c \in DecodeChoices}

InitDecode ==
    /\ objs = <<>>
    /\ self = LanguageInfo("de")
    /\ older = LanguageInfo("de")
    /\ input \in DecodeInputs
    /\ ret = [op |-> "init"]
    /\ calls = 0

\* json_decode(input)
JsonDecode ==
    /\ ret.op = "init"
    /\ ret' = [op |-> "json_decode", val |-> json_decode(input)]
    /\ UNCHANGED <<objs, self, older, input, calls>>

NextDecode == JsonDecode

SpecDecode == InitDecode /\ [][NextDecode]_vars

(***************************************************************************)
(* Claims about compare                                                    *)
(***************************************************************************)
\* how often the ChangeLog holds the event change_type(worksheet)
Count(change_log, worksheet, change_type) ==
    Cardinality({i \in 1..Len(change_log) :
                    change_log[i] = [worksheet |-> worksheet, change_type |-> change_type]})

KeySet(d) == {d[i].k : i \in 1..Len(d)}

Position(d, key) == CHOOSE i \in 1..Len(d) : d[i].k = key

Has(li, name, file_type) == has_file_type(Deref(DictGet(li.worksheets, name)), file_type)

NewOf(file_type) == IF file_type = "pdf" THEN "NEW_PDF" ELSE "NEW_ODT"

DeletedOf(file_type) == IF file_type = "pdf" THEN "DELETED_PDF" ELSE "DELETED_ODT"

FileEvents == {"NEW_PDF", "DELETED_PDF", "UPDATED_PDF", "NEW_ODT", "DELETED_ODT", "UPDATED_ODT"}

\* self.compare(old) has returned for a LanguageInfo old
Compared == ret.op = "compare" /\ KindOf(ret.old) = "LanguageInfo"

\* C2: for a worksheet on both sides and each of pdf and odt, compare reports
\* NEW exactly once iff the file is there now and was not before, DELETED
\* exactly once iff it was there before and is not now, nothing otherwise, and
\* never an UPDATED event.
C2_FileEvents ==
    Compared =>
        /\ \A w \in KeySet(self.worksheets) \cap KeySet(ret.old.worksheets) :
              \A ft \in FileTypes :
                 LET now == Has(self, w, ft)
                     earlier == Has(ret.old, w, ft)
                 IN  /\ Count(ret.val, w, NewOf(ft)) = IF now /\ ~earlier THEN 1 ELSE 0
                     /\ Count(ret.val, w, DeletedOf(ft)) = IF ~now /\ earlier THEN 1 ELSE 0
        /\ \A i \in 1..Len(ret.val) :
              ret.val[i].change_type
                  \in ChangeTypes \ {"UPDATED_PDF", "UPDATED_ODT", "UPDATED_WORKSHEET"}

\* a worksheet on both sides lost its pdf and gained its odt: both are reported
C2_Witness ==
    /\ Compared
    /\ \E w \in KeySet(self.worksheets) \cap KeySet(ret.old.worksheets) :
          /\ Has(self, w, "odt") /\ ~Has(ret.old, w, "odt")
          /\ ~Has(self, w, "pdf") /\ Has(ret.old, w, "pdf")
          /\ ret.val = <<[worksheet |-> w, change_type |-> "DELETED_PDF"],
                         [worksheet |-> w, change_type |-> "NEW_ODT"]>>

\* C3: compare reports NEW_WORKSHEET exactly once for every worksheet of self
\* that old lacks and DELETED_WORKSHEET exactly once for every worksheet of old
\* that self lacks; a worksheet on one side only has no pdf or odt event and a
\* worksheet on both sides has no worksheet event.
C3_WorksheetEvents ==
    Compared =>
        LET mine == KeySet(self.worksheets)
            theirs == KeySet(ret.old.worksheets)
        IN  /\ \A i \in 1..Len(ret.val) : ret.val[i].worksheet \in mine \cup theirs
            /\ \A w \in mine \cup theirs :
                  /\ Count(ret.val, w, "NEW_WORKSHEET") =
                        IF w \in mine \ theirs THEN 1 ELSE 0
                  /\ Count(ret.val, w, "DELETED_WORKSHEET") =
                        IF w \in theirs \ mine THEN 1 ELSE 0
                  /\ Count(ret.val, w, "UPDATED_WORKSHEET") = 0
                  /\ w \notin mine \cap theirs =>
                        \A e \in FileEvents : Count(ret.val, w, e) = 0

\* one worksheet is new, one is deleted and one is on both sides
C3_Witness ==
    /\ Compared
    /\ \E x, y, z \in Names :
          /\ x \in KeySet(self.worksheets) \ KeySet(ret.old.worksheets)
          /\ y \in KeySet(ret.old.worksheets) \ KeySet(self.worksheets)
          /\ z \in KeySet(self.worksheets) \cap KeySet(ret.old.worksheets)
          /\ Count(ret.val, x, "NEW_WORKSHEET") = 1
          /\ Count(ret.val, y, "DELETED_WORKSHEET") = 1

\* C4: in the ChangeLog every DELETED_WORKSHEET event comes after every other
\* event; the other events follow the order of self.worksheets, pdf before odt
\* for one worksheet; the DELETED_WORKSHEET events follow the order of
\* old.worksheets.
C4_Order ==
    Compared =>
        \A i, j \in 1..Len(ret.val) :
            i < j =>
               LET a == ret.val[i]
                   b == ret.val[j]
               IN  /\ ~(a.change_type = "DELETED_WORKSHEET" /\ b.change_type # "DELETED_WORKSHEET")
                   /\ (a.change_type # "DELETED_WORKSHEET" /\ b.change_type # "DELETED_WORKSHEET") =>
                         /\ DictHas(self.worksheets, a.worksheet)
                         /\ DictHas(self.worksheets, b.worksheet)
                         /\ Position(self.worksheets, a.worksheet)
                               <= Position(self.worksheets, b.worksheet)
                         /\ a.worksheet = b.worksheet =>
                               /\ a.change_type \in {"NEW_PDF", "DELETED_PDF"}
                               /\ b.change_type \in {"NEW_ODT", "DELETED_ODT"}
                   /\ (a.change_type = "DELETED_WORKSHEET" /\ b.change_type = "DELETED_WORKSHEET") =>
                         /\ DictHas(ret.old.worksheets, a.worksheet)
                         /\ DictHas(ret.old.worksheets, b.worksheet)
                         /\ Position(ret.old.worksheets, a.worksheet)
                               < Position(ret.old.worksheets, b.worksheet)

\* events of two worksheets of self, then a deleted worksheet
C4_Witness ==
    /\ Compared
    /\ \E i, j, k \in 1..Len(ret.val) :
          /\ i < j /\ j < k
          /\ ret.val[i].change_type # "DELETED_WORKSHEET"
          /\ ret.val[j].change_type # "DELETED_WORKSHEET"
          /\ ret.val[i].worksheet # ret.val[j].worksheet
          /\ ret.val[k].change_type = "DELETED_WORKSHEET"

\* C5: compare with an argument that is no LanguageInfo returns an empty
\* ChangeLog, raises nothing and leaves self and its worksheets as they were.
C5_NotLanguageInfo ==
    [][(ret'.op = "compare" /\ KindOf(ret'.old) # "LanguageInfo") =>
          (ret'.val = ChangeLog /\ self' = self /\ objs' = objs)]_vars

\* compare(None) has returned for a self with two worksheets
C5_Witness ==
    /\ ret.op = "compare"
    /\ ret.old = None
    /\ Len(self.worksheets) >= 2
    /\ ret.val = ChangeLog

(***************************************************************************)
(* Claims about the queries of LanguageInfo                                *)
(***************************************************************************)
\* the names of self's worksheets that have no pdf
WithoutPdf == {w \in KeySet(self.worksheets) : ~Has(self, w, "pdf")}

\* C10: count_finished_translations() is the number of worksheets with a pdf
\* (a worksheet with only an odt is not counted),
\* list_worksheets_with_missing_pdf() is the names without a pdf, each once,
\* in the order of self.worksheets, and the two add up to the number of
\* worksheets.
C10_Partition ==
    LET missing == list_worksheets_with_missing_pdf(self)
        count == count_finished_translations(self)
    IN  /\ count = Cardinality(KeySet(self.worksheets) \ WithoutPdf)
        /\ {missing[i] : i \in 1..Len(missing)} = WithoutPdf
        /\ \A i, j \in 1..Len(missing) :
              i < j => Position(self.worksheets, missing[i])
                          < Position(self.worksheets, missing[j])
        /\ count + Len(missing) = Len(self.worksheets)
        /\ ret.op = "count_finished_translations" => ret.val = count
        /\ ret.op = "list_worksheets_with_missing_pdf" => ret.val = missing

\* the count was taken of a language with a pdf worksheet and an odt-only one
C10_Witness ==
    /\ ret.op = "count_finished_translations"
    /\ ret.val = 1
    /\ \E w \in WithoutPdf : Has(self, w, "odt")
    /\ Len(list_worksheets_with_missing_pdf(self)) = 1

(***************************************************************************)
(* Claims about the codec                                                  *)
(***************************************************************************)
\* the same file_type -> (url, timestamp) mapping
SameFiles(f, g) ==
    /\ KeySet(f) = KeySet(g)
    /\ \A ft \in KeySet(f) :
          /\ DictGet(f, ft).url = DictGet(g, ft).url
          /\ DictGet(f, ft).timestamp = DictGet(g, ft).timestamp

SameWorksheet(w, v) ==
    /\ w.page = v.page
    /\ w.language_code = v.language_code
    /\ w.title = v.title
    /\ w.progress = v.progress
    /\ SameFiles(w.files, v.files)

\* decoded is a LanguageInfo equal field by field to li
SameLanguage(li, decoded) ==
    /\ KindOf(decoded) = "LanguageInfo"
    /\ li.language_code = decoded.language_code
    /\ KeySet(li.worksheets) = KeySet(decoded.worksheets)
    /\ \A name \in KeySet(li.worksheets) :
          SameWorksheet(Deref(DictGet(li.worksheets, name)),
                        Deref(DictGet(decoded.worksheets, name)))

\* C1: json_decode applied bottom-up to the encoder's output of a LanguageInfo
\* built by add_worksheet_info(name, info) and add_file_info calls gives a
\* LanguageInfo equal to it field by field.
C1_RoundTrip == ret.op = "roundtrip" => SameLanguage(self, ret.val)

\* every worksheet of self is stored under its own page
KeyedByPage ==
    \A i \in 1..Len(self.worksheets) :
        self.worksheets[i].k = Deref(self.worksheets[i].v).page

\* the round trip of a LanguageInfo whose worksheets are stored under their page
RoundTripKeyedByPage == (ret.op = "roundtrip" /\ KeyedByPage) => SameLanguage(self, ret.val)

(***************************************************************************)
(* Claims about FileInfo                                                   *)
(***************************************************************************)
\* neither a datetime nor a string that parses as ISO-8601
Unparseable(timestamp) ==
    /\ timestamp.t # "datetime"
    /\ timestamp.t = "str" => IsRaise(fromisoformat(replace(timestamp.s, "Z", "+00:00")))

\* C6: constructing a FileInfo from a timestamp that is neither a datetime nor
\* parseable (a bad string, None, another non-string) raises nothing and gives
\* the timestamp 1970-01-01T00:00:00 with file_type and url as given.
C6_NeverFails ==
    (ret.op = "FileInfo" /\ Unparseable(input.timestamp)) =>
        ret.val = MkFileInfo(input.file_type, input.url, Epoch)

\* the fallback for the strings that do not parse
FallbackOnBadString ==
    (ret.op = "FileInfo" /\ Unparseable(input.timestamp) /\ input.timestamp.t \in {"str", "bytes"}) =>
        ret.val = MkFileInfo(input.file_type, input.url, Epoch)

(***************************************************************************)
(* Claims about json_decode                                                *)
(***************************************************************************)
FileKeys == {"file_type", "url", "timestamp"}

SomeNot(list, kind) == \E i \in 1..Len(list) : KindOf(list[i]) # kind

\* what a mapping with page can lack or hold wrongly
WorksheetFault(data) ==
    \/ ~({"language_code", "title", "progress"} \subseteq DOMAIN data)
    \/ KindOf(data["progress"]) # "TranslationProgress"
    \/ ("files" \in DOMAIN data /\ SomeNot(data["files"], "FileInfo"))

\* what a mapping with worksheets can lack or hold wrongly
LanguageFault(data) ==
    \/ "language_code" \notin DOMAIN data
    \/ SomeNot(data["worksheets"], "WorksheetInfo")

\* the malformed mappings as the claim lists them
Malformed(data) ==
    \/ (DOMAIN data \subseteq FileKeys /\ DOMAIN data # {} /\ DOMAIN data # FileKeys)
    \/ ("page" \in DOMAIN data /\ WorksheetFault(data))
    \/ ("worksheets" \in DOMAIN data /\ LanguageFault(data))

\* C7 as stated: json_decode fails, and returns no object, for every malformed
\* mapping: a FileInfo mapping that lacks any of file_type, url, timestamp, a
\* mapping with page that lacks language_code, title or progress or holds a
\* progress or a file that is not decoded, a mapping with worksheets that lacks
\* language_code or holds a worksheet that is not decoded.
C7_MalformedFails ==
    (ret.op = "json_decode" /\ Malformed(input)) => IsRaise(ret.val)

\* the malformed mappings that the branch json_decode takes looks at
MalformedForItsBranch(data) ==
    \/ ("file_type" \in DOMAIN data /\ ~({"url", "timestamp"} \subseteq DOMAIN data))
    \/ (/\ DOMAIN data \cap {"file_type", "translated"} = {}
        /\ "page" \in DOMAIN data
        /\ WorksheetFault(data))
    \/ (/\ DOMAIN data \cap {"file_type", "translated", "page"} = {}
        /\ "worksheets" \in DOMAIN data
        /\ LanguageFault(data))

\* C7 as amended: json_decode raises AssertionError, and returns no object, for
\* a mapping with file_type that lacks url or timestamp, for a mapping with
\* page and without file_type and translated that has one of the page faults,
\* and for a mapping with worksheets and without file_type, translated and
\* page that has one of the worksheets faults.
C7_Amended ==
    (ret.op = "json_decode" /\ MalformedForItsBranch(input)) =>
        ret.val = Raise("AssertionError")

\* a complete worksheet mapping whose files hold a mapping that was not decoded
C7_Witness ==
    /\ ret.op = "json_decode"
    /\ DOMAIN input = {"page", "language_code", "title", "progress", "files"}
    /\ KindOf(input["progress"]) = "TranslationProgress"
    /\ SomeNot(input["files"], "FileInfo")
    /\ ret.val = Raise("AssertionError")

\* the class json_decode builds for the keys present, "dict" when it builds none
Chosen(keys) ==
    IF "file_type" \in keys THEN "FileInfo"
    ELSE IF "translated" \in keys THEN "TranslationProgress"
    ELSE IF "page" \in keys THEN "WorksheetInfo"
    ELSE IF "worksheets" \in keys THEN "LanguageInfo"
    ELSE "dict"

\* C8: json_decode picks what to build from the keys alone, FileInfo before
\* the progress record before WorksheetInfo before LanguageInfo: it returns an
\* object of the first class whose key is present or fails, a mapping that is
\* complete for several classes becomes the first of them, and a mapping with
\* none of file_type, translated, page, worksheets is returned unchanged.
C8_Priority ==
    ret.op = "json_decode" =>
        LET keys == DOMAIN input
        IN  /\ KindOf(ret.val) \in {Chosen(keys), "raise"}
            /\ Chosen(keys) = "dict" => ret.val = input
            /\ (FileKeys \subseteq keys /\ input["timestamp"].t = "str") =>
                  /\ KindOf(ret.val) = "FileInfo"
                  /\ ret.val.file_type = input["file_type"]
                  /\ ret.val.url = input["url"]
            /\ (Chosen(keys) = "WorksheetInfo" /\ ~WorksheetFault(input)) =>
                  /\ KindOf(ret.val) = "WorksheetInfo"
                  /\ ret.val.page = input["page"]
            /\ (Chosen(keys) = "LanguageInfo" /\ ~LanguageFault(input)) =>
                  /\ KindOf(ret.val) = "LanguageInfo"
                  /\ ret.val.language_code = input["language_code"]

\* a mapping complete for FileInfo, WorksheetInfo and LanguageInfo became a FileInfo
C8_Witness ==
    /\ ret.op = "json_decode"
    /\ FileKeys \cup {"page", "language_code", "title", "progress", "worksheets"}
          \subseteq DOMAIN input
    /\ ~WorksheetFault(input)
    /\ ~LanguageFault(input)
    /\ KindOf(ret.val) = "FileInfo"

(***************************************************************************)
(* Claims about add_file_info                                              *)
(***************************************************************************)
\* at most one FileInfo per type, each under its own file_type
FilesKeyed(files) ==
    \A i \in 1..Len(files) :
        /\ KindOf(files[i].v) = "FileInfo"
        /\ files[i].k = files[i].v.file_type
        /\ \A j \in 1..Len(files) : files[j].k = files[i].k => j = i

\* C9: after any add_file_info calls, in either mode, files holds at most one
\* FileInfo per type, each under its own file_type; the call's file is the
\* entry of its type, replacing an earlier one, the entries of the other types
\* are as before, and a call that raises changes nothing.
C9_OnePerType ==
    /\ \A id \in 1..Len(objs) : FilesKeyed(get_file_infos(objs[id]))
    /\ ret.op = "add_file_info" =>
          LET now == get_file_infos(objs[ret.id])
          IN  IF ret.val # None THEN now = ret.before
              ELSE LET ft == IF ret.file_info # None THEN ret.file_info.file_type
                             ELSE ret.file_type.s
                   IN  /\ DictHas(now, ft)
                       /\ DictGet(now, ft) =
                             IF ret.file_info # None THEN ret.file_info
                             ELSE MkFileInfo(ft, unquote(ret.from_pywikibot.url),
                                             ret.from_pywikibot.timestamp)
                       /\ KeySet(now) = KeySet(ret.before) \cup {ft}
                       /\ \A other \in KeySet(ret.before) \ {ft} :
                             DictGet(now, other) = DictGet(ret.before, other)
                       /\ Len(now) = Cardinality(KeySet(ret.before) \cup {ft})

\* a second file of a type replaced the first while the other type's file stayed
C9_Witness ==
    /\ ret.op = "add_file_info"
    /\ ret.val = None
    /\ Len(ret.before) = 2
    /\ Len(get_file_infos(objs[ret.id])) = 2
    /\ get_file_infos(objs[ret.id]) # ret.before

=============================================================================
